---- MODULE Spec2Model ----
(***************************************************************************)
(* Model of the task-tracker analysis scripts: scripts/analysis.py         *)
(* (load_data, calculate_metrics, get_metrics_by_category),                *)
(* scripts/visualizations.py (save_all_visualizations) and                 *)
(* analyze_tasks.py (main).                                                *)
(*                                                                         *)
(* Timestamps are counted in whole seconds (the CSV holds milliseconds;    *)
(* the model draws only timestamps that are multiples of 1000 ms), so the  *)
(* validity floor 1,000,000,000,000 ms is 1,000,000,000 s and a day is     *)
(* 86,400 s.  Floating-point values are held as exact fractions num/den in *)
(* lowest terms; den = 0 is numpy's result of a division by zero (0/0 is   *)
(* NaN).                                                                   *)
(***************************************************************************)
EXTENDS Integers, Sequences, FiniteSets, TLC

VARIABLES
    issues_csv,       \* data/issues.csv: [exists, rows]
    resolutions_csv,  \* data/resolutions.csv: [exists, rows]
    pc,               \* position of the running call
    df,               \* result of load_data
    metrics,          \* result of calculate_metrics
    df_categories,    \* result of get_metrics_by_category
    chart,            \* save_all_visualizations: pass, chart and step in progress
    rendered,         \* figures built so far, as <<format, chart name>>
    written,          \* chart files written so far, as <<format, chart name>>
    ret               \* how main ended: its return value or the exception, and the exit status

vars == <<issues_csv, resolutions_csv, pc, df, metrics, df_categories,
          chart, rendered, written, ret>>

-----------------------------------------------------------------------------
(* Bounds of the checked inputs *)

MaxRows == 3
MaxLoadRows == 2
MaxMainRows == 1

-----------------------------------------------------------------------------
(* Program constants *)

EpochFloor == 1000000000
SecondsPerDay == 86400
NA == -1

NoName == "<NA>"
Unset == [status |-> "unset"]

-----------------------------------------------------------------------------
(* Exact fractions standing for the floats of the program *)

Abs(n) == IF n < 0 THEN -n ELSE n

RECURSIVE GCD(_, _)
GCD(a, b) == IF b = 0 THEN a ELSE GCD(b, a % b)

Sign(n) == IF n > 0 THEN 1 ELSE IF n < 0 THEN -1 ELSE 0

NaN == [num |-> 0, den |-> 0]

\* n / d as numpy divides: a zero divisor gives nan (0/0) or +-inf, never an exception
Frac(n, d) ==
    IF d = 0 THEN [num |-> Sign(n), den |-> 0]
    ELSE LET g == GCD(Abs(n), Abs(d))
             s == IF d < 0 THEN -1 ELSE 1
         IN  [num |-> s * (n \div g), den |-> s * (d \div g)]

Whole(n) == [num |-> n, den |-> 1]

IsNaN(x) == x.den = 0 /\ x.num = 0
IsFinite(x) == x.den > 0

\* comparisons with a NaN operand are false, as in IEEE arithmetic
Leq(a, b) == IsFinite(a) /\ IsFinite(b) /\ a.num * b.den <= b.num * a.den
Gt(a, b) == IsFinite(a) /\ IsFinite(b) /\ a.num * b.den > b.num * a.den

Add(a, b) ==
    IF ~IsFinite(a) \/ ~IsFinite(b) THEN NaN
    ELSE Frac(a.num * b.den + b.num * a.den, a.den * b.den)

Sub(a, b) == Add(a, [num |-> -b.num, den |-> b.den])

Mul(a, b) ==
    IF ~IsFinite(a) \/ ~IsFinite(b) THEN NaN
    ELSE Frac(a.num * b.num, a.den * b.den)

Div(a, b) ==
    IF ~IsFinite(a) \/ ~IsFinite(b) THEN NaN
    ELSE Frac(a.num * b.den, a.den * b.num)

-----------------------------------------------------------------------------
(* pandas Series of floats, as sequences of fractions *)

RECURSIVE SeriesSum(_)
SeriesSum(xs) == IF xs = <<>> THEN Whole(0) ELSE Add(Head(xs), SeriesSum(Tail(xs)))

SeriesSorted(xs) == SortSeq(xs, LAMBDA a, b : a.num * b.den < b.num * a.den)

\* Series.mean(): nan on an empty series
SeriesMean(xs) == IF xs = <<>> THEN NaN ELSE Div(SeriesSum(xs), Whole(Len(xs)))

\* Series.min() / Series.max(): nan on an empty series
SeriesMin(xs) == IF xs = <<>> THEN NaN ELSE SeriesSorted(xs)[1]
SeriesMax(xs) == IF xs = <<>> THEN NaN ELSE SeriesSorted(xs)[Len(xs)]

\* a variant that interpolates between neighbours of the series as stored,
\* without ordering it
SeriesQuantile_Unsorted(xs, q100) ==
    IF xs = <<>> THEN NaN
    ELSE LET pos == (Len(xs) - 1) * q100
             lo == pos \div 100
             fr == pos % 100
         IN  IF fr = 0 THEN xs[lo + 1]
             ELSE Add(xs[lo + 1], Mul(Sub(xs[lo + 2], xs[lo + 1]), Frac(fr, 100)))

\* Series.quantile(q), q = q100/100, linear interpolation between the two
\* order statistics around position (n-1)*q; nan on an empty series
SeriesQuantile(xs, q100) ==
    IF xs = <<>> THEN NaN
    ELSE LET s == SeriesSorted(xs)
             pos == (Len(xs) - 1) * q100
             lo == pos \div 100
             fr == pos % 100
         IN  IF fr = 0 THEN s[lo + 1]
             ELSE Add(s[lo + 1], Mul(Sub(s[lo + 2], s[lo + 1]), Frac(fr, 100)))

\* Series.median(): the middle value, or the mean of the two middle values
SeriesMedian(xs) ==
    IF xs = <<>> THEN NaN
    ELSE LET s == SeriesSorted(xs)
             n == Len(xs)
         IN  IF n % 2 = 1 THEN s[(n + 1) \div 2]
             ELSE Div(Add(s[n \div 2], s[n \div 2 + 1]), Whole(2))

RECURSIVE SumSqDev(_, _)
SumSqDev(xs, m) ==
    IF xs = <<>> THEN Whole(0)
    ELSE Add(Mul(Sub(Head(xs), m), Sub(Head(xs), m)), SumSqDev(Tail(xs), m))

\* Series.std() (ddof = 1), held as its square: nan below two values
SeriesVar(xs) ==
    IF Len(xs) < 2 THEN NaN
    ELSE Div(SumSqDev(xs, SeriesMean(xs)), Whole(Len(xs) - 1))

\* a variant that counts the values above t where <= was meant
CountLeq_Gt(xs, t) == Cardinality({i \in 1..Len(xs) : Gt(xs[i], Whole(t))})

\* (series <= t).sum() and (series > t).sum(), t in days
CountLeq(xs, t) == Cardinality({i \in 1..Len(xs) : Leq(xs[i], Whole(t))})
CountGt(xs, t) == Cardinality({i \in 1..Len(xs) : Gt(xs[i], Whole(t))})

-----------------------------------------------------------------------------
(* scripts/analysis.py: load_data *)

\* a variant that keeps the floor itself (>= where > was meant)
ValidCreated_Geq(r) == r.created >= EpochFloor

\* issues[issues['created'] > 1000000000000]
ValidCreated(r) == r.created > EpochFloor

\* pd.to_datetime(ms / 1000, unit='s', errors='coerce'): a missing value gives NaT
ToDatetime(ts) == IF ts = NA THEN NA ELSE ts

\* (resolved - created) / (1000 * 60 * 60 * 24): nan when resolved is missing
DaysToResolve(r) ==
    IF r.resolved = NA THEN NaN ELSE Frac(r.resolved - r.created, SecondsPerDay)

WithDerived(r) ==
    [created |-> r.created, resolved |-> r.resolved, category |-> r.category,
     resolution |-> r.resolution,
     created_dt |-> ToDatetime(r.created),
     resolved_dt |-> ToDatetime(r.resolved),
     days_to_resolve |-> DaysToResolve(r)]

WithName(r, name) ==
    [created |-> r.created, resolved |-> r.resolved, category |-> r.category,
     resolution |-> r.resolution, created_dt |-> r.created_dt,
     resolved_dt |-> r.resolved_dt, days_to_resolve |-> r.days_to_resolve,
     resolution_name |-> name]

\* the rows of the lookup whose id equals the code (pandas matches a missing key
\* with a missing key)
Matches(code, lookup) == SelectSeq(lookup, LAMBDA l : l.id = code)

\* DataFrame.merge(lookup, on='resolution', how='left'): per left row, in order,
\* one row per matching lookup row, or one row with a missing name
RECURSIVE LeftMerge(_, _)
LeftMerge(left, lookup) ==
    IF left = <<>> THEN <<>>
    ELSE LET r == Head(left)
             m == Matches(r.resolution, lookup)
             joined == IF m = <<>> THEN << WithName(r, NoName) >>
                       ELSE [i \in 1..Len(m) |-> WithName(r, m[i].key)]
         IN  joined \o LeftMerge(Tail(left), lookup)

RECURSIVE MapDerived(_)
MapDerived(rows) ==
    IF rows = <<>> THEN <<>> ELSE << WithDerived(Head(rows)) >> \o MapDerived(Tail(rows))

load_data(issues, resolutions) ==
    IF ~issues.exists \/ ~resolutions.exists
    THEN [status |-> "FileNotFoundError"]
    ELSE LET issues_clean == SelectSeq(issues.rows, ValidCreated)
         IN  [status |-> "ok",
              rows |-> LeftMerge(MapDerived(issues_clean), resolutions.rows)]

-----------------------------------------------------------------------------
(* scripts/analysis.py: calculate_metrics *)

\* a variant that forgets the days_to_resolve >= 0 half of the mask
IsResolved_NotnaOnly(r) == r.resolved_dt # NA

\* df[(df['resolved_dt'].notna()) & (df['days_to_resolve'] >= 0)]
IsResolved(r) == r.resolved_dt # NA /\ Leq(Whole(0), r.days_to_resolve)

ResolvedSubset(rows) == SelectSeq(rows, IsResolved)

Days(rows) == [i \in 1..Len(rows) |-> rows[i].days_to_resolve]

\* a variant that defaults to 0 on an empty resolved subset
SlaPct_Guarded(days, t) ==
    IF Len(days) > 0 THEN Frac(CountLeq(days, t) * 100, Len(days)) ELSE Whole(0)

\* (days <= t).sum() / len(resolved) * 100: a numpy integer divided by the length
SlaPct(days, t) == Frac(CountLeq(days, t) * 100, Len(days))

\* (days > t).sum() / len(resolved) * 100
LongPct(days, t) == Frac(CountGt(days, t) * 100, Len(days))

\* the dictionary built once total is known to be non-zero
MetricsDict(rows) ==
    LET resolved == ResolvedSubset(rows)
        days == Days(resolved)
        total == Len(rows)
    IN  [status |-> "ok",
         total |-> total,
         resolved |-> Len(resolved),
         open |-> total - Len(resolved),
         resolution_rate |-> Frac(Len(resolved) * 100, total),
         avg_days |-> SeriesMean(days),
         median_days |-> SeriesMedian(days),
         min_days |-> SeriesMin(days),
         max_days |-> SeriesMax(days),
         std_days |-> SeriesVar(days),
         p25_days |-> SeriesQuantile(days, 25),
         p75_days |-> SeriesQuantile(days, 75),
         p90_days |-> SeriesQuantile(days, 90),
         p95_days |-> SeriesQuantile(days, 95),
         sla_1day |-> SlaPct(days, 1),
         sla_3day |-> SlaPct(days, 3),
         sla_7day |-> SlaPct(days, 7),
         sla_14day |-> SlaPct(days, 14),
         sla_30day |-> SlaPct(days, 30),
         long_30pct |-> LongPct(days, 30),
         long_90pct |-> LongPct(days, 90)]

\* len(resolved) / total * 100 divides two Python ints: ZeroDivisionError when
\* the table is empty
calculate_metrics(rows) ==
    IF Len(rows) = 0 THEN [status |-> "ZeroDivisionError"] ELSE MetricsDict(rows)

-----------------------------------------------------------------------------
(* scripts/analysis.py: get_metrics_by_category *)

\* the category labels, in the order sorted() puts them
CategoryOrder == <<"Bug", "Task">>

\* sorted(df['category'].unique())
SortedCategories(rows) ==
    SelectSeq(CategoryOrder, LAMBDA c : \E i \in 1..Len(rows) : rows[i].category = c)

\* cat_all[cat_all['resolved_dt'].notna()]
CatResolved(cat_all) == SelectSeq(cat_all, LAMBDA r : r.resolved_dt # NA)

\* cat_resolved[cat_resolved['days_to_resolve'] >= 0]
CatWithTime(cat_resolved) ==
    SelectSeq(cat_resolved, LAMBDA r : Leq(Whole(0), r.days_to_resolve))

CategoryRow(rows, category) ==
    LET cat_all == SelectSeq(rows, LAMBDA r : r.category = category)
        cat_resolved == CatResolved(cat_all)
        days == Days(CatWithTime(cat_resolved))
    IN  [category |-> category,
         total |-> Len(cat_all),
         resolved |-> Len(cat_resolved),
         resolution_rate |-> IF Len(cat_all) > 0
                             THEN Frac(Len(cat_resolved) * 100, Len(cat_all))
                             ELSE Whole(0),
         avg_days |-> IF Len(days) > 0 THEN SeriesMean(days) ELSE Whole(0),
         median_days |-> IF Len(days) > 0 THEN SeriesMedian(days) ELSE Whole(0),
         p95_days |-> IF Len(days) > 0 THEN SeriesQuantile(days, 95) ELSE Whole(0)]

get_metrics_by_category(rows) ==
    LET cats == SortedCategories(rows)
    IN  [status |-> "ok", rows |-> [i \in 1..Len(cats) |-> CategoryRow(rows, cats[i])]]

-----------------------------------------------------------------------------
(* The input files *)

\* rows of issues.csv: created and resolved in seconds, resolved possibly missing
IssueRows(createds, offsets, categories, codes) ==
    {[created |-> c, resolved |-> r, category |-> k, resolution |-> x] :
        <<c, r>> \in {<<c0, NA>> : c0 \in createds}
                     \cup {<<c0, c0 + o>> : c0 \in createds, o \in offsets},
        k \in categories, x \in codes}

Tables(rowSet, n) == UNION {[1..k -> rowSet] : k \in 0..n}

File(rows) == [exists |-> TRUE, rows |-> rows]
Missing == [exists |-> FALSE, rows |-> <<>>]

Running == [kind |-> "running", value |-> FALSE, exc |-> "", exit |-> NA]
NoChart == [fmt |-> "", idx |-> 0, step |-> ""]

InitState(start) ==
    /\ pc = start
    /\ df = Unset
    /\ metrics = Unset
    /\ df_categories = Unset
    /\ chart = NoChart
    /\ rendered = {}
    /\ written = {}
    /\ ret = Running

-----------------------------------------------------------------------------
(* Calls of the functions of scripts/analysis.py *)

CallLoadData ==
    /\ pc = "call"
    /\ df = Unset
    /\ df' = load_data(issues_csv, resolutions_csv)
    /\ UNCHANGED <<issues_csv, resolutions_csv, pc, metrics, df_categories,
                   chart, rendered, written, ret>>

CallCalculateMetrics ==
    /\ pc = "call"
    /\ df.status = "ok"
    /\ metrics = Unset
    /\ metrics' = calculate_metrics(df.rows)
    /\ UNCHANGED <<issues_csv, resolutions_csv, pc, df, df_categories,
                   chart, rendered, written, ret>>

CallGetMetricsByCategory ==
    /\ pc = "call"
    /\ df.status = "ok"
    /\ df_categories = Unset
    /\ df_categories' = get_metrics_by_category(df.rows)
    /\ UNCHANGED <<issues_csv, resolutions_csv, pc, df, metrics,
                   chart, rendered, written, ret>>

-----------------------------------------------------------------------------
(* analyze_tasks.py: main and the __main__ block *)

Returned(v) == [kind |-> "return", value |-> v, exc |-> "", exit |-> NA]
Raised(e) == [kind |-> "raise", value |-> FALSE, exc |-> e, exit |-> NA]

\* step 1: ensure_output_dir('outputs/visualizations')
MainEnsureOutputDir ==
    /\ pc = "ensure_dir"
    /\ pc' = "load"
    /\ UNCHANGED <<issues_csv, resolutions_csv, df, metrics, df_categories,
                   chart, rendered, written, ret>>

\* a variant without the except clause: the exception leaves main
OnLoadError_Propagate(e) == Raised(e)

\* except FileNotFoundError: print the guidance and return False
OnLoadError(e) == IF e = "FileNotFoundError" THEN Returned(FALSE) ELSE Raised(e)

\* step 2: df = load_data(...) inside try
MainLoadData ==
    /\ pc = "load"
    /\ LET r == load_data(issues_csv, resolutions_csv)
       IN  /\ df' = r
           /\ IF r.status = "ok"
              THEN pc' = "metrics" /\ ret' = ret
              ELSE pc' = "exit" /\ ret' = OnLoadError(r.status)
    /\ UNCHANGED <<issues_csv, resolutions_csv, metrics, df_categories,
                   chart, rendered, written>>

\* a variant that goes from the scalar metrics straight to the charts, leaving
\* the per-category aggregation out
MainCalculateMetrics_SkipCategories ==
    /\ pc = "metrics"
    /\ LET m == calculate_metrics(df.rows)
       IN  /\ metrics' = m
           /\ IF m.status = "ok"
              THEN /\ pc' = "charts"
                   /\ chart' = [fmt |-> "png", idx |-> 1, step |-> "plot"]
                   /\ ret' = ret
              ELSE /\ pc' = "exit"
                   /\ chart' = chart
                   /\ ret' = Raised(m.status)
    /\ UNCHANGED <<issues_csv, resolutions_csv, df, df_categories, rendered, written>>

\* step 3: metrics = calculate_metrics(df), outside any try
MainCalculateMetrics ==
    /\ pc = "metrics"
    /\ LET m == calculate_metrics(df.rows)
       IN  /\ metrics' = m
           /\ IF m.status = "ok"
              THEN pc' = "categories" /\ ret' = ret
              ELSE pc' = "exit" /\ ret' = Raised(m.status)
    /\ UNCHANGED <<issues_csv, resolutions_csv, df, df_categories,
                   chart, rendered, written>>

\* step 4: df_categories = get_metrics_by_category(df); step 5 enters the try
\* and the first save_all_visualizations(formats=['png'])
MainGetMetricsByCategory ==
    /\ pc = "categories"
    /\ df_categories' = get_metrics_by_category(df.rows)
    /\ pc' = "charts"
    /\ chart' = [fmt |-> "png", idx |-> 1, step |-> "plot"]
    /\ UNCHANGED <<issues_csv, resolutions_csv, df, metrics, rendered, written, ret>>

\* the three figures of save_all_visualizations, in its order
ChartNames == <<"sla_chart", "category_distribution", "resolution_distribution">>

\* a variant whose except clause swallows the error and carries on to return True
OnChartError_ReturnTrue == Returned(TRUE)

\* except Exception as e: print it and return False
OnChartError == Returned(FALSE)

\* fig, _ = plot_...(df, output_dir, save=False): builds the figure or raises
PlotChart ==
    /\ pc = "charts"
    /\ chart.step = "plot"
    /\ \E ok \in BOOLEAN :
          IF ok
          THEN /\ rendered' = rendered \cup {<<chart.fmt, ChartNames[chart.idx]>>}
               /\ chart' = [chart EXCEPT !.step = "save"]
               /\ pc' = pc
               /\ ret' = ret
          ELSE /\ rendered' = rendered
               /\ chart' = [chart EXCEPT !.step = "failed"]
               /\ pc' = "exit"
               /\ ret' = OnChartError
    /\ UNCHANGED <<issues_csv, resolutions_csv, df, metrics, df_categories, written>>

\* after a figure is saved and closed: the next figure, the PDF pass, or the end
\* of the try block
NextChart(c) ==
    IF c.idx < Len(ChartNames) THEN [fmt |-> c.fmt, idx |-> c.idx + 1, step |-> "plot"]
    ELSE IF c.fmt = "png" THEN [fmt |-> "pdf", idx |-> 1, step |-> "plot"]
    ELSE [fmt |-> "pdf", idx |-> c.idx, step |-> "done"]

\* save_figure(fig, name, output_dir, formats): fig.savefig writes the file or raises
SaveFigure ==
    /\ pc = "charts"
    /\ chart.step = "save"
    /\ \E ok \in BOOLEAN :
          IF ok
          THEN /\ written' = written \cup {<<chart.fmt, ChartNames[chart.idx]>>}
               /\ chart' = NextChart(chart)
               /\ pc' = IF NextChart(chart).step = "done" THEN "report" ELSE pc
               /\ ret' = ret
          ELSE /\ written' = written
               /\ chart' = [chart EXCEPT !.step = "failed"]
               /\ pc' = "exit"
               /\ ret' = OnChartError
    /\ UNCHANGED <<issues_csv, resolutions_csv, df, metrics, df_categories, rendered>>

\* step 6: the final report, then return True
MainReport ==
    /\ pc = "report"
    /\ pc' = "exit"
    /\ ret' = Returned(TRUE)
    /\ UNCHANGED <<issues_csv, resolutions_csv, df, metrics, df_categories,
                   chart, rendered, written>>

\* sys.exit(0 if success else 1); an exception that left main ends the
\* interpreter with status 1
ExitStatus(r) == IF r.kind = "return" /\ r.value THEN 0 ELSE 1

SysExit ==
    /\ pc = "exit"
    /\ pc' = "done"
    /\ ret' = [ret EXCEPT !.exit = ExitStatus(ret)]
    /\ UNCHANGED <<issues_csv, resolutions_csv, df, metrics, df_categories,
                   chart, rendered, written>>

-----------------------------------------------------------------------------
(* Specifications *)

Day == SecondsPerDay

\* a run of main over the data directory
MainIssueRows == IssueRows({EpochFloor, EpochFloor + 1}, {Day}, {"Bug"}, {NA})

Init ==
    /\ issues_csv \in {Missing} \cup {File(t) : t \in Tables(MainIssueRows, MaxMainRows)}
    /\ resolutions_csv \in {Missing, File(<<>>)}
    /\ InitState("ensure_dir")

Next ==
    \/ MainEnsureOutputDir
    \/ MainLoadData
    \/ MainCalculateMetrics
    \/ MainGetMetricsByCategory
    \/ PlotChart
    \/ SaveFigure
    \/ MainReport
    \/ SysExit

Spec == Init /\ [][Next]_vars

\* load_data over issue tables and lookups
LoadIssueRows ==
    IssueRows({EpochFloor - 1, EpochFloor, EpochFloor + 1}, {-Day, Day}, {"Bug"}, {NA, 1, 2})

Lookups ==
    { <<>>,
      << [id |-> 1, key |-> "Done"] >>,
      << [id |-> 1, key |-> "Done"], [id |-> 2, key |-> "Fixed"] >>,
      << [id |-> 1, key |-> "Done"], [id |-> 1, key |-> "Duplicate"] >>,
      << [id |-> NA, key |-> "Unknown"], [id |-> 2, key |-> "Fixed"] >> }

InitLoad ==
    /\ issues_csv \in {Missing} \cup {File(t) : t \in Tables(LoadIssueRows, MaxLoadRows)}
    /\ resolutions_csv \in {Missing} \cup {File(l) : l \in Lookups}
    /\ InitState("call")

NextLoad == CallLoadData

SpecLoad == InitLoad /\ [][NextLoad]_vars

\* the metrics functions over cleaned tables
MetricsIssueRows ==
    IssueRows({EpochFloor + 1}, {-Day, 0, Day, 3 * Day, 10 * Day, 31 * Day},
              {"Bug", "Task"}, {NA})

InitMetrics ==
    /\ issues_csv \in {File(t) : t \in Tables(MetricsIssueRows, MaxRows)}
    /\ resolutions_csv = File(<<>>)
    /\ InitState("call")

NextMetrics ==
    \/ CallLoadData
    \/ CallCalculateMetrics
    \/ CallGetMetricsByCategory

SpecMetrics == InitMetrics /\ [][NextMetrics]_vars

\* the spec's example: a resolved subset with elapsed days 1, 2, 3, 10, 31 in any
\* order, alone or with one more record that is not in the resolved subset
ExampleDays == <<1, 2, 3, 10, 31>>

ExampleOffsets == {ExampleDays[i] * Day : i \in 1..Len(ExampleDays)}

ExampleIssueRows == IssueRows({EpochFloor + 1}, {-Day} \cup ExampleOffsets, {"Bug"}, {NA})

IsExampleTable(t) ==
    /\ \A o \in ExampleOffsets :
          Cardinality({i \in 1..Len(t) : t[i].resolved = t[i].created + o}) = 1
    /\ Cardinality({i \in 1..Len(t) : t[i].resolved = NA
                                      \/ t[i].resolved < t[i].created}) <= 1

InitExample ==
    /\ issues_csv \in {File(t) : t \in {u \in [1..Len(ExampleDays) -> ExampleIssueRows]
                                             \cup [1..Len(ExampleDays) + 1 -> ExampleIssueRows] :
                                          IsExampleTable(u)}}
    /\ resolutions_csv = File(<<>>)
    /\ InitState("call")

SpecExample == InitExample /\ [][NextMetrics]_vars

-----------------------------------------------------------------------------
(* The claims *)

\* the resolved subset as the claims define it: a resolution instant and
\* non-negative elapsed days
IsResolvedRecord(r) ==
    r.resolved_dt # NA /\ IsFinite(r.days_to_resolve) /\ r.days_to_resolve.num >= 0

ResolvedCount(rows) == Cardinality({i \in 1..Len(rows) : IsResolvedRecord(rows[i])})

Pct(x) == Leq(Whole(0), x) /\ Leq(x, Whole(100))

RECURSIVE SumTotals(_)
SumTotals(rows) == IF rows = <<>> THEN 0 ELSE Head(rows).total + SumTotals(Tail(rows))

\* C1: for every cleaned table, the empty one included, calculate_metrics returns
\* a resolution_rate within [0,100] that equals resolved/total*100, resolved
\* being the number of records with a resolution instant and non-negative
\* elapsed days
C1_ResolutionRate ==
    metrics # Unset =>
        /\ metrics.status = "ok"
        /\ Pct(metrics.resolution_rate)
        /\ metrics.resolution_rate = Frac(ResolvedCount(df.rows) * 100, Len(df.rows))

\* C2 as stated: on the resolved subset [1, 2, 3, 10, 31] calculate_metrics
\* returns sla_30day = 100, sla_7day = 60 and long_30pct = 20
C2_Original ==
    metrics # Unset =>
        /\ metrics.sla_30day = Whole(100)
        /\ metrics.sla_7day = Whole(60)
        /\ metrics.long_30pct = Whole(20)

\* C2 as amended: on the resolved subset [1, 2, 3, 10, 31] calculate_metrics
\* returns sla_30day = 80 (the record at 31 days is over the threshold),
\* sla_7day = 60 and long_30pct = 20
C2_Example ==
    metrics # Unset =>
        /\ metrics.status = "ok"
        /\ metrics.sla_30day = Whole(80)
        /\ metrics.sla_7day = Whole(60)
        /\ metrics.long_30pct = Whole(20)

C2_Witness ==
    /\ metrics # Unset
    /\ metrics.status = "ok"
    /\ metrics.total = Len(ExampleDays) + 1
    /\ metrics.resolved = Len(ExampleDays)
    /\ metrics.min_days = Whole(1)
    /\ metrics.max_days = Whole(31)
    /\ \E i \in 1..Len(df.rows) : df.rows[i].resolved_dt # NA /\ ~IsResolvedRecord(df.rows[i])

FileMissing == ~issues_csv.exists \/ ~resolutions_csv.exists

\* C3: given a missing file load_data raises FileNotFoundError, and main handles
\* it by returning False (exit status 1): the exception does not leave main and
\* no later step of main runs
C3_MissingFile ==
    FileMissing =>
        /\ pc \in {"ensure_dir", "load", "exit", "done"}
        /\ pc \in {"exit", "done"} =>
              /\ df = [status |-> "FileNotFoundError"]
              /\ ret.kind = "return"
              /\ ret.value = FALSE
        /\ pc = "done" => ret.exit = 1

C3_Witness ==
    /\ pc = "done"
    /\ issues_csv.exists
    /\ ~resolutions_csv.exists
    /\ df.status = "FileNotFoundError"
    /\ ret.kind = "return"
    /\ ret.exit = 1

AllCharts == {<<f, ChartNames[i]>> : f \in {"png", "pdf"}, i \in 1..Len(ChartNames)}

ChartsCompleted == chart.step = "done" /\ rendered = AllCharts /\ written = AllCharts

\* C4: the process exits with status 0 (main returned True) exactly when both
\* input files were found and the PNG pass and the PDF pass completed without
\* raising; an exception raised while a chart is built or saved is caught in
\* main, which returns False (exit status 1)
C4_ExitStatus ==
    /\ pc = "done" =>
          /\ ret.exit \in {0, 1}
          /\ ret.exit = 0 <=> (ret.kind = "return" /\ ret.value)
          /\ ret.exit = 0 <=> (~FileMissing /\ ChartsCompleted)
    /\ chart.step = "failed" =>
          /\ ret.kind = "return"
          /\ ret.value = FALSE
          /\ pc = "done" => ret.exit = 1

C4_Witness ==
    /\ pc = "done"
    /\ chart = [fmt |-> "pdf", idx |-> 2, step |-> "failed"]
    /\ <<"pdf", "category_distribution">> \in rendered
    /\ <<"pdf", "category_distribution">> \notin written
    /\ ret.kind = "return"
    /\ ret.exit = 1

\* C5: on a non-empty table whose resolved subset is empty calculate_metrics does
\* not raise: it returns total, resolved = 0, open = total, resolution_rate = 0,
\* and the mean, median, percentile, SLA and overrun entries are NaN
C5_EmptyResolvedSubset ==
    (metrics # Unset /\ Len(df.rows) > 0 /\ ResolvedCount(df.rows) = 0) =>
        /\ metrics.status = "ok"
        /\ metrics.total = Len(df.rows)
        /\ metrics.resolved = 0
        /\ metrics.open = metrics.total
        /\ metrics.resolution_rate = Whole(0)
        /\ \A x \in {metrics.avg_days, metrics.median_days, metrics.p25_days,
                     metrics.p75_days, metrics.p90_days, metrics.p95_days,
                     metrics.sla_1day, metrics.sla_3day, metrics.sla_7day,
                     metrics.sla_14day, metrics.sla_30day,
                     metrics.long_30pct, metrics.long_90pct} : IsNaN(x)

C5_Witness ==
    /\ metrics # Unset
    /\ metrics.status = "ok"
    /\ metrics.total = 2
    /\ metrics.resolved = 0
    /\ IsNaN(metrics.sla_30day)
    /\ \E i \in 1..Len(df.rows) : df.rows[i].resolved_dt # NA
    /\ \E i \in 1..Len(df.rows) : df.rows[i].resolved_dt = NA

SameIssue(row, r) ==
    /\ row.created = r.created
    /\ row.resolved = r.resolved
    /\ row.category = r.category
    /\ row.resolution = r.resolution

C7_CategoryTotals ==
    (metrics # Unset /\ df_categories # Unset) =>
        /\ metrics.status = "ok"
        /\ SumTotals(df_categories.rows) = metrics.total

\* a category row whose category has no resolved record
NoResolvedIn(rows, category) ==
    \A i \in 1..Len(rows) : rows[i].category = category => ~IsResolvedRecord(rows[i])

\* C8: in get_metrics_by_category a category without resolved records (a
\* resolution instant and non-negative elapsed days) has resolved,
\* resolution_rate, avg_days, median_days and p95_days all 0
C8_EmptyCategoryDefaults ==
    df_categories # Unset =>
        \A i \in 1..Len(df_categories.rows) :
            LET row == df_categories.rows[i]
            IN  NoResolvedIn(df.rows, row.category) =>
                   /\ row.resolved = 0
                   /\ row.resolution_rate = Whole(0)
                   /\ row.avg_days = Whole(0)
                   /\ row.median_days = Whole(0)
                   /\ row.p95_days = Whole(0)

\* C9: with a non-empty resolved subset the SLA percentages of calculate_metrics
\* do not decrease with the threshold, 1 <= 3 <= 7 <= 14 <= 30 days, and each is
\* within [0,100]
C9_SlaMonotone ==
    (metrics # Unset /\ ResolvedCount(df.rows) > 0) =>
        /\ metrics.status = "ok"
        /\ Leq(metrics.sla_1day, metrics.sla_3day)
        /\ Leq(metrics.sla_3day, metrics.sla_7day)
        /\ Leq(metrics.sla_7day, metrics.sla_14day)
        /\ Leq(metrics.sla_14day, metrics.sla_30day)
        /\ \A x \in {metrics.sla_1day, metrics.sla_3day, metrics.sla_7day,
                     metrics.sla_14day, metrics.sla_30day} : Pct(x)

C9_Witness ==
    /\ metrics # Unset
    /\ metrics.status = "ok"
    /\ metrics.resolved = 3
    /\ Gt(metrics.sla_3day, metrics.sla_1day)
    /\ Gt(metrics.sla_14day, metrics.sla_7day)
    /\ Gt(metrics.sla_1day, Whole(0))
    /\ metrics.sla_30day = Whole(100)

\* C10: with a non-empty resolved subset the interpolated percentiles of
\* calculate_metrics are ordered, min <= p25 <= median <= p75 <= p90 <= p95 <= max,
\* and none is negative
C10_PercentileOrder ==
    (metrics # Unset /\ ResolvedCount(df.rows) > 0) =>
        /\ metrics.status = "ok"
        /\ Leq(Whole(0), metrics.min_days)
        /\ Leq(metrics.min_days, metrics.p25_days)
        /\ Leq(metrics.p25_days, metrics.median_days)
        /\ Leq(metrics.median_days, metrics.p75_days)
        /\ Leq(metrics.p75_days, metrics.p90_days)
        /\ Leq(metrics.p90_days, metrics.p95_days)
        /\ Leq(metrics.p95_days, metrics.max_days)

C10_Witness ==
    /\ metrics # Unset
    /\ metrics.status = "ok"
    /\ metrics.resolved = 3
    /\ Gt(metrics.p25_days, metrics.min_days)
    /\ Gt(metrics.median_days, metrics.p25_days)
    /\ Gt(metrics.p75_days, metrics.median_days)
    /\ Gt(metrics.p90_days, metrics.p75_days)
    /\ Gt(metrics.p95_days, metrics.p90_days)
    /\ Gt(metrics.max_days, metrics.p95_days)
    /\ df.rows[1].days_to_resolve = metrics.max_days

\* C11: for every cleaned table calculate_metrics returns open + resolved = total
\* with open >= 0 and resolved >= 0, and a record with a resolution instant but
\* negative elapsed days is counted in open, not in resolved
C11_OpenPlusResolved ==
    metrics # Unset =>
        /\ metrics.status = "ok"
        /\ metrics.open + metrics.resolved = metrics.total
        /\ metrics.open >= 0
        /\ metrics.resolved >= 0
        /\ metrics.resolved = ResolvedCount(df.rows)
        /\ metrics.open = Cardinality({i \in 1..Len(df.rows) : ~IsResolvedRecord(df.rows[i])})

\* the sub-table analyze_single_category hands to calculate_metrics:
\* df[df['category'] == category_name]
CategorySubTable(rows, category) == SelectSeq(rows, LAMBDA r : r.category = category)

RECURSIVE SumResolved(_)
SumResolved(rows) == IF rows = <<>> THEN 0 ELSE Head(rows).resolved + SumResolved(Tail(rows))

\* C12: for every category of a cleaned table the 'total', 'resolved' and
\* 'resolution_rate' of its row in get_metrics_by_category equal those
\* calculate_metrics returns for the sub-table of that category, and so the
\* per-category resolved counts sum to the overall resolved count
C12_CategoryAgreesWithScalar ==
    df_categories # Unset =>
        /\ \A i \in 1..Len(df_categories.rows) :
              LET row == df_categories.rows[i]
                  m == calculate_metrics(CategorySubTable(df.rows, row.category))
              IN  /\ m.status = "ok"
                  /\ row.total = m.total
                  /\ row.resolved = m.resolved
                  /\ row.resolution_rate = m.resolution_rate
        /\ SumResolved(df_categories.rows) = ResolvedCount(df.rows)

LookupNames(code, lookup) ==
    {lookup[k].key : k \in {j \in 1..Len(lookup) : lookup[j].id = code}}

\* C14: the left join of load_data neither drops nor duplicates issues: for every
\* issues table and every lookup (with unmatched, missing or repeated codes) the
\* cleaned table holds exactly one row per input issue created after
\* 1,000,000,000,000 ms, in order, and the row's resolution_name is the lookup
\* name of its resolution code, or null when the code has no match
C14_LeftJoinOneRowPerIssue ==
    df.status = "ok" =>
        LET kept == SelectSeq(issues_csv.rows, LAMBDA r : r.created > EpochFloor)
        IN  /\ Len(df.rows) = Len(kept)
            /\ \A i \in 1..Len(df.rows) :
                  LET names == LookupNames(kept[i].resolution, resolutions_csv.rows)
                  IN  /\ SameIssue(df.rows[i], kept[i])
                      /\ IF names = {} THEN df.rows[i].resolution_name = NoName
                         ELSE df.rows[i].resolution_name \in names

====
